---------------------------- MODULE Spec2Model ----------------------------
(***************************************************************************)
(* WebSocket signaling handler (amplify/functions/signaling/handler.py).   *)
(*                                                                         *)
(* Every inbound event is one invocation of `handler`.  Invocations run    *)
(* concurrently and share nothing but the two DynamoDB tables, so an       *)
(* invocation is a process whose atomic steps are its calls to the store   *)
(* (put_item, get_item, delete_item) and to the gateway                    *)
(* (post_to_connection); what it computes locally between two calls is     *)
(* part of the step that makes the next call.  The response is handed      *)
(* back in a step of its own (Return), after the last call.                *)
(*                                                                         *)
(* Left out: the timestamps (updatedAt, ts), which no decision reads.      *)
(***************************************************************************)
EXTENDS Integers, Sequences, FiniteSets, TLC

\* Number of invocations that can be in flight at the same time.
NProcs == 2
Procs == 1..NProcs

\* A key missing from a dict, an absent field, None.
Absent == "~absent"

(***************************************************************************)
(* Inputs                                                                  *)
(***************************************************************************)
\* A token, by what _decode_jwt_noverify reads of it: whether there is one,
\* its number of dot-separated segments, whether the middle segment decodes
\* to a JSON object, and that object's "sub" and "cognito:groups".
Token(sub, groups) ==
    [present |-> TRUE, segs |-> 3, json |-> TRUE, sub |-> sub, groups |-> groups]
TokOwnerA == Token("owner-A", << >>)
TokUserB == Token("user-B", <<"users">>)
TokAdmin == Token("admin-1", <<"ADMINS">>)
TokNone == [present |-> FALSE, segs |-> 0, json |-> FALSE, sub |-> Absent, groups |-> << >>]
TokNoSub == Token(Absent, << >>)
TokEmptySub == Token("", << >>)
TokTwoSegs == [present |-> TRUE, segs |-> 2, json |-> FALSE, sub |-> Absent, groups |-> << >>]
TokBadJson == [present |-> TRUE, segs |-> 3, json |-> FALSE, sub |-> Absent, groups |-> << >>]
ValidTokens == {TokOwnerA, TokUserB, TokAdmin}

ConnIds == {"R-1", "C-1"}
RobotIds == {"robot-9"}
\* (type, payload) pairs of the signal messages that are sent.
Signals ==
    { <<"offer", "sdp-1">>, <<" Answer", "sdp-2">>, <<"ice-candidate", Absent>> }

\* The body of a message event, parsed: every field a message may carry.
Msg(type, robotId, target, clientConnectionId, payload) ==
    [type |-> type, robotId |-> robotId, target |-> target,
     clientConnectionId |-> clientConnectionId, payload |-> payload]
NoMsg == Msg(Absent, Absent, Absent, Absent, Absent)

Event(routeKey, connectionId, token, body) ==
    [routeKey |-> routeKey, connectionId |-> connectionId, token |-> token, body |-> body]

ConnectEvents ==
    { Event("$connect", c, t, NoMsg) : c \in ConnIds, t \in {TokOwnerA, TokAdmin} }
DisconnectEvents ==
    { Event("$disconnect", c, TokNone, NoMsg) : c \in ConnIds }
RegisterEvents ==
    { Event("$default", c, t, Msg("register", r, Absent, Absent, Absent)) :
        c \in ConnIds, t \in ValidTokens, r \in RobotIds }
SignalEvents ==
    { Event("$default", "C-1", t, Msg(s[1], r, "robot", Absent, s[2])) :
        t \in ValidTokens, s \in Signals, r \in RobotIds }
TakeoverEvents ==
    { Event("$default", "C-1", t, Msg("takeover", r, Absent, Absent, Absent)) :
        t \in ValidTokens, r \in RobotIds }
ClientSignalEvents ==
    { Event("$default", "R-1", TokUserB, Msg(" Answer", r, "client", cc, "sdp-2")) :
        r \in RobotIds, cc \in {"C-1", Absent, ""} }
    \cup { Event("$default", "C-1", TokOwnerA, Msg("offer", r, "client", "R-1", "sdp-1")) :
             r \in RobotIds }
\* Events that are turned down before any call is made.
RejectedEvents ==
    { Event("$connect", "C-1", TokNone, NoMsg),
      Event("$connect", "R-1", TokTwoSegs, NoMsg),
      Event("$default", "C-1", TokNoSub, Msg("offer", "robot-9", "robot", Absent, "sdp-1")),
      Event("$default", "R-1", TokBadJson, Msg("register", "robot-9", Absent, Absent, Absent)),
      Event("$default", "C-1", TokEmptySub, Msg("takeover", "robot-9", Absent, Absent, Absent)),
      Event("$default", "R-1", TokOwnerA, Msg("register", Absent, Absent, Absent, Absent)),
      Event("$default", "C-1", TokUserB, Msg("offer", "robot-9", "peer", Absent, "sdp-1")),
      Event("$default", "C-1", TokUserB, Msg("offer", Absent, "robot", Absent, "sdp-1")),
      Event("$default", "C-1", TokUserB, Msg("takeover", Absent, Absent, Absent, Absent)),
      Event("$default", "C-1", TokUserB, Msg("ping", "robot-9", Absent, Absent, Absent)),
      Event("$default", "C-1", TokUserB, NoMsg) }
Events ==
    ConnectEvents \cup DisconnectEvents \cup RegisterEvents \cup SignalEvents
        \cup TakeoverEvents \cup ClientSignalEvents \cup RejectedEvents

(***************************************************************************)
(* State                                                                   *)
(***************************************************************************)
VARIABLES
    presence,   \* ROBOT_PRESENCE_TABLE: a set of items, keyed by robotId
    conns,      \* CONN_TABLE: a set of items, keyed by connectionId
    pc,         \* pc[p]: where invocation p stands
    ev,         \* ev[p]: the event invocation p handles
    dest,       \* dest[p]: target_conn / conn, once resolved
    code,       \* code[p]: the Error.Code of the ClientError p's last store call raised
    resp,       \* resp[p]: the response, once decided
    sent,       \* sent[p]: what p gave to post_to_connection, in order
    fresh,      \* fresh[p]: history; the robot had no item when p's event came in
    writers     \* writers[r]: history; the subjects that have written r's item

vars == <<presence, conns, pc, ev, dest, code, resp, sent, fresh, writers>>

NoEvent == Event(Absent, Absent, TokNone, NoMsg)
Response(status, body) == [statusCode |-> status, body |-> body]
NoResponse == Response(0, Absent)

(***************************************************************************)
(* The store: a table is a set of items; put_item replaces the item of     *)
(* the same key, get_item reads it.                                        *)
(***************************************************************************)
ItemsOf(tbl, key, k) == { i \in tbl : i[key] = k }
HasItem(tbl, key, k) == ItemsOf(tbl, key, k) # {}
GetItem(tbl, key, k) == CHOOSE i \in ItemsOf(tbl, key, k) : TRUE
PutItem(tbl, key, item) == { i \in tbl : i[key] # item[key] } \cup {item}
DeleteItem(tbl, key, k) == { i \in tbl : i[key] # k }

(***************************************************************************)
(* _decode_jwt_noverify                                                    *)
(***************************************************************************)
NoClaims == [sub |-> Absent, groups |-> << >>]
decode_jwt_noverify(token) ==
    IF ~token.present THEN NoClaims
    ELSE IF token.segs # 3 THEN NoClaims
    ELSE IF ~token.json THEN NoClaims
    ELSE LET sub == IF token.sub = Absent THEN "" ELSE token.sub
         IN IF sub = "" THEN NoClaims
            ELSE [sub |-> sub, groups |-> token.groups]

\* The check on the claims that lets every token pass.
HasClaims_Any(claims) == TRUE

HasClaims(claims) == claims # NoClaims /\ claims.sub # ""

SeqToSet(s) == { s[i] : i \in 1..Len(s) }
IsAdmin(claims) ==
    "ADMINS" \in SeqToSet(claims.groups) \/ "admin" \in SeqToSet(claims.groups)

RECURSIVE Join(_)
Join(s) ==
    IF Len(s) = 0 THEN ""
    ELSE IF Len(s) = 1 THEN s[1]
    ELSE s[1] \o "," \o Join(Tail(s))

Claims(p) == decode_jwt_noverify(ev[p].token)

(***************************************************************************)
(* Where an invocation goes next: to a call (Goto), or to its response     *)
(* (Done).                                                                 *)
(***************************************************************************)
Goto(label, d) == [pc |-> label, resp |-> NoResponse, dest |-> d]
Done(status, body) == [pc |-> "ret", resp |-> Response(status, body), dest |-> Absent]

\* (msg.get("type") or "").strip().lower(), on the types that are sent.
StripLower(t) ==
    CASE t = Absent -> ""
      [] t = " Answer" -> "answer"
      [] OTHER -> t

SignalTypes == {"offer", "answer", "ice-candidate"}

(***************************************************************************)
(* _on_connect, up to its put_item                                         *)
(***************************************************************************)
on_connect(e) ==
    IF ~HasClaims(decode_jwt_noverify(e.token))
    THEN Done(401, "unauthorized")
    ELSE Goto("conn_put", Absent)

\* The Connection Record with the kind of a robot's connection.
ConnectionItem_KindRobot(connection_id, claims) ==
    [connectionId |-> connection_id, userId |-> claims.sub,
     groups |-> Join(claims.groups), kind |-> "robot"]

\* The Connection Record _on_connect writes.
ConnectionItem(connection_id, claims) ==
    [connectionId |-> connection_id, userId |-> claims.sub,
     groups |-> Join(claims.groups), kind |-> "client"]

(***************************************************************************)
(* _handle_register, up to its first put_item                              *)
(***************************************************************************)
handle_register(msg) ==
    IF msg.robotId = Absent
    THEN Done(400, "robotId required")
    ELSE Goto("reg_put", Absent)

\* The item without the caller's connection.
PresenceItem_NoConnection(robot_id, caller, connection_id) ==
    [robotId |-> robot_id, ownerUserId |-> caller,
     connectionId |-> Absent, status |-> "online"]

\* The Presence Record _handle_register writes, in both of its put_item calls.
PresenceItem(robot_id, caller, connection_id) ==
    [robotId |-> robot_id, ownerUserId |-> caller,
     connectionId |-> connection_id, status |-> "online"]

\* The put_item without its ConditionExpression.
ConditionHolds_Dropped(tbl, robot_id, me) == TRUE

\* The ConditionExpression without its "OR ownerUserId = :me".
ConditionHolds_NotExistsOnly(tbl, robot_id, me) ==
    ItemsOf(tbl, "robotId", robot_id) = {}

\* ConditionExpression "attribute_not_exists(ownerUserId) OR ownerUserId = :me"
ConditionHolds(tbl, robot_id, me) ==
    \A i \in ItemsOf(tbl, "robotId", robot_id) : i.ownerUserId = me

(***************************************************************************)
(* _is_owner_or_admin and _find_robot_conn: one get_item each              *)
(***************************************************************************)
\* The guard that lets every caller pass when the robot has no record.
is_owner_or_admin_NoRecordPasses(tbl, robot_id, claims) ==
    \/ IsAdmin(claims)
    \/ ~HasItem(tbl, "robotId", robot_id)
    \/ claims.sub = GetItem(tbl, "robotId", robot_id).ownerUserId

\* The guard that lets only admins pass.
is_owner_or_admin_AdminOnly(tbl, robot_id, claims) == IsAdmin(claims)

is_owner_or_admin(tbl, robot_id, claims) ==
    \/ IsAdmin(claims)
    \/ /\ HasItem(tbl, "robotId", robot_id)
       /\ claims.sub = GetItem(tbl, "robotId", robot_id).ownerUserId

find_robot_conn(tbl, robot_id) ==
    IF HasItem(tbl, "robotId", robot_id)
    THEN GetItem(tbl, "robotId", robot_id).connectionId
    ELSE Absent

(***************************************************************************)
(* _handle_signal and _handle_takeover, up to their first call             *)
(***************************************************************************)
\* _handle_signal with the guard on both targets.
handle_signal_GuardsClient(msg) ==
    IF msg.robotId = Absent THEN Done(400, "robotId required")
    ELSE IF msg.target \in {"robot", "client"} THEN Goto("guard", Absent)
    ELSE Done(400, "invalid target")

handle_signal(msg) ==
    IF msg.robotId = Absent THEN Done(400, "robotId required")
    ELSE IF msg.target = "robot" THEN Goto("guard", Absent)
    ELSE IF msg.target = "client"
    THEN IF msg.clientConnectionId \in {Absent, ""}
         THEN Done(400, "clientConnectionId required for target=client")
         ELSE Goto("post", msg.clientConnectionId)
    ELSE Done(400, "invalid target")

handle_takeover(msg) ==
    IF msg.robotId = Absent
    THEN Done(400, "robotId required")
    ELSE Goto("guard", Absent)

\* The forwarded message with the normalised type in place of the inbound one.
SignalMessage_NormalizedType(claims, msg) ==
    [type |-> StripLower(msg.type), robotId |-> msg.robotId, from |-> claims.sub,
     payload |-> msg.payload]

\* The message _handle_signal forwards.
SignalMessage(claims, msg) ==
    [type |-> msg.type, robotId |-> msg.robotId, from |-> claims.sub,
     payload |-> msg.payload]

\* The message _handle_takeover sends.
TakeoverMessage(claims, msg) ==
    [type |-> "admin-takeover", robotId |-> msg.robotId, by |-> claims.sub]

MsgType(e) == StripLower(e.body.type)
IsRegister(e) == e.routeKey = "$default" /\ MsgType(e) = "register"
IsSignal(e) == e.routeKey = "$default" /\ MsgType(e) \in SignalTypes
IsTakeover(e) == e.routeKey = "$default" /\ MsgType(e) = "takeover"

(***************************************************************************)
(* handler: the route, the token, the body, the type                       *)
(***************************************************************************)
\* The dispatcher without its last branch: any other type is taken as a signal.
Dispatch_UnknownAsSignal(e) ==
    IF e.routeKey = "$connect" THEN on_connect(e)
    ELSE IF e.routeKey = "$disconnect" THEN Goto("disc_delete", Absent)
    ELSE IF ~HasClaims(decode_jwt_noverify(e.token)) THEN Done(401, "unauthorized")
    ELSE IF MsgType(e) = "register" THEN handle_register(e.body)
    ELSE IF MsgType(e) = "takeover" THEN handle_takeover(e.body)
    ELSE handle_signal(e.body)

Dispatch(e) ==
    IF e.routeKey = "$connect" THEN on_connect(e)
    ELSE IF e.routeKey = "$disconnect" THEN Goto("disc_delete", Absent)
    ELSE IF ~HasClaims(decode_jwt_noverify(e.token)) THEN Done(401, "unauthorized")
    ELSE IF MsgType(e) = "register" THEN handle_register(e.body)
    ELSE IF MsgType(e) \in SignalTypes THEN handle_signal(e.body)
    ELSE IF MsgType(e) = "takeover" THEN handle_takeover(e.body)
    ELSE Done(400, "unknown type")

Move(p, next) ==
    /\ pc' = [pc EXCEPT ![p] = next.pc]
    /\ resp' = [resp EXCEPT ![p] = next.resp]
    /\ dest' = [dest EXCEPT ![p] = next.dest]

Init ==
    /\ presence = {}
    /\ conns = {}
    /\ pc = [p \in Procs |-> "idle"]
    /\ ev = [p \in Procs |-> NoEvent]
    /\ dest = [p \in Procs |-> Absent]
    /\ code = [p \in Procs |-> Absent]
    /\ resp = [p \in Procs |-> NoResponse]
    /\ sent = [p \in Procs |-> << >>]
    /\ fresh = [p \in Procs |-> FALSE]
    /\ writers = [r \in RobotIds |-> {}]

\* An event arrives and invocation p runs up to its first call.
handler(p) ==
    /\ pc[p] = "idle"
    /\ \E e \in Events :
        /\ ev' = [ev EXCEPT ![p] = e]
        /\ Move(p, Dispatch(e))
        /\ fresh' = [fresh EXCEPT ![p] =
                        /\ Dispatch(e).pc = "reg_put"
                        /\ ~HasItem(presence, "robotId", e.body.robotId)]
    /\ UNCHANGED <<presence, conns, code, sent, writers>>

\* _on_connect: put_item on the connection table.
ConnPut(p) ==
    /\ pc[p] = "conn_put"
    /\ conns' = PutItem(conns, "connectionId",
                        ConnectionItem(ev[p].connectionId, Claims(p)))
    /\ Move(p, Done(200, Absent))
    /\ UNCHANGED <<presence, ev, code, sent, fresh, writers>>

\* The disconnect that also removes the Presence Records of its connection.
DiscDelete_ClearsPresence(p) ==
    /\ pc[p] = "disc_delete"
    /\ conns' = DeleteItem(conns, "connectionId", ev[p].connectionId)
    /\ presence' = DeleteItem(presence, "connectionId", ev[p].connectionId)
    /\ Move(p, Done(200, Absent))
    /\ UNCHANGED <<ev, code, sent, fresh, writers>>

\* _on_disconnect: delete_item on the connection table.
DiscDelete(p) ==
    /\ pc[p] = "disc_delete"
    /\ conns' = DeleteItem(conns, "connectionId", ev[p].connectionId)
    /\ Move(p, Done(200, Absent))
    /\ UNCHANGED <<presence, ev, code, sent, fresh, writers>>

\* p's item is written to the presence table.
WritePresence(p) ==
    LET robot_id == ev[p].body.robotId
    IN /\ presence' = PutItem(presence, "robotId",
                         PresenceItem(robot_id, Claims(p).sub, ev[p].connectionId))
       /\ writers' = [writers EXCEPT ![robot_id] = @ \cup {Claims(p).sub}]

\* The conditional put_item whose failure sends every caller, admin or not,
\* to the unconditional put_item.
RegPut_ForceForAll(p) ==
    /\ pc[p] = "reg_put"
    /\ IF ConditionHolds(presence, ev[p].body.robotId, Claims(p).sub)
       THEN WritePresence(p) /\ Move(p, Done(200, Absent)) /\ UNCHANGED code
       ELSE /\ UNCHANGED <<presence, writers>>
            /\ code' = [code EXCEPT ![p] = "ConditionalCheckFailedException"]
            /\ Move(p, Goto("reg_force", Absent))
    /\ UNCHANGED <<conns, ev, sent, fresh>>

\* _handle_register: the conditional put_item and what its outcome decides.
RegPut(p) ==
    /\ pc[p] = "reg_put"
    /\ IF ConditionHolds(presence, ev[p].body.robotId, Claims(p).sub)
       THEN WritePresence(p) /\ Move(p, Done(200, Absent)) /\ UNCHANGED code
       ELSE /\ UNCHANGED <<presence, writers>>
            /\ code' = [code EXCEPT ![p] = "ConditionalCheckFailedException"]
            /\ IF ~IsAdmin(Claims(p))
               THEN Move(p, Done(409, "robot already registered by another owner"))
               ELSE Move(p, Goto("reg_force", Absent))
    /\ UNCHANGED <<conns, ev, sent, fresh>>

\* The force-claim as an update of ownerUserId alone, the rest of the item kept.
RegForce_OwnerOnly(p) ==
    /\ pc[p] = "reg_force"
    /\ presence' = { [i EXCEPT !.ownerUserId =
                        IF i.robotId = ev[p].body.robotId THEN Claims(p).sub ELSE @] :
                     i \in presence }
    /\ writers' = [writers EXCEPT ![ev[p].body.robotId] = @ \cup {Claims(p).sub}]
    /\ Move(p, Done(200, Absent))
    /\ UNCHANGED <<conns, ev, code, sent, fresh>>

\* _handle_register: the admin's unconditional put_item.
RegForce(p) ==
    /\ pc[p] = "reg_force"
    /\ WritePresence(p)
    /\ Move(p, Done(200, Absent))
    /\ UNCHANGED <<conns, ev, code, sent, fresh>>

\* The guard whose verdict is not acted upon.
Guard_AlwaysPasses(p) ==
    /\ pc[p] = "guard"
    /\ Move(p, Goto("find", Absent))
    /\ UNCHANGED <<presence, conns, ev, code, sent, fresh, writers>>

\* The guard that takes the caller from the Connection Record of the sending
\* connection instead of the token.
Guard_BySession(p) ==
    /\ pc[p] = "guard"
    /\ IF /\ HasItem(conns, "connectionId", ev[p].connectionId)
          /\ is_owner_or_admin(presence, ev[p].body.robotId,
                [sub |-> GetItem(conns, "connectionId", ev[p].connectionId).userId,
                 groups |-> Claims(p).groups])
       THEN Move(p, Goto("find", Absent))
       ELSE Move(p, Done(403, "forbidden"))
    /\ UNCHANGED <<presence, conns, ev, code, sent, fresh, writers>>

\* _handle_signal (target=robot) and _handle_takeover: _is_owner_or_admin.
Guard(p) ==
    /\ pc[p] = "guard"
    /\ IF is_owner_or_admin(presence, ev[p].body.robotId, Claims(p))
       THEN Move(p, Goto("find", Absent))
       ELSE Move(p, Done(403, "forbidden"))
    /\ UNCHANGED <<presence, conns, ev, code, sent, fresh, writers>>

\* _handle_signal (target=robot) and _handle_takeover: _find_robot_conn.
Find(p) ==
    /\ pc[p] = "find"
    /\ LET conn == find_robot_conn(presence, ev[p].body.robotId)
       IN IF conn = Absent
          THEN Move(p, Done(404, IF IsTakeover(ev[p]) THEN "robot offline"
                                 ELSE "target offline"))
          ELSE Move(p, Goto("post", conn))
    /\ UNCHANGED <<presence, conns, ev, code, sent, fresh, writers>>

\* The takeover that also makes the caller the owner of the record.
Post_Reassigns(p) ==
    /\ pc[p] = "post"
    /\ sent' = [sent EXCEPT ![p] = Append(@,
                  [ConnectionId |-> dest[p],
                   Data |-> IF IsTakeover(ev[p])
                            THEN TakeoverMessage(Claims(p), ev[p].body)
                            ELSE SignalMessage(Claims(p), ev[p].body)])]
    /\ presence' = IF IsTakeover(ev[p])
                   THEN { [i EXCEPT !.ownerUserId =
                             IF i.robotId = ev[p].body.robotId THEN Claims(p).sub ELSE @] :
                          i \in presence }
                   ELSE presence
    /\ pc' = [pc EXCEPT ![p] = "ret"]
    /\ resp' = [resp EXCEPT ![p] = Response(200, Absent)]
    /\ UNCHANGED <<conns, ev, dest, code, fresh, writers>>

\* _post_to: post_to_connection of the forwarded message or the notification.
Post(p) ==
    /\ pc[p] = "post"
    /\ sent' = [sent EXCEPT ![p] = Append(@,
                  [ConnectionId |-> dest[p],
                   Data |-> IF IsTakeover(ev[p])
                            THEN TakeoverMessage(Claims(p), ev[p].body)
                            ELSE SignalMessage(Claims(p), ev[p].body)])]
    /\ pc' = [pc EXCEPT ![p] = "ret"]
    /\ resp' = [resp EXCEPT ![p] = Response(200, Absent)]
    /\ UNCHANGED <<presence, conns, ev, dest, code, fresh, writers>>

\* The response goes back to the gateway and the invocation ends.
Return(p) ==
    /\ pc[p] = "ret"
    /\ pc' = [pc EXCEPT ![p] = "idle"]
    /\ ev' = [ev EXCEPT ![p] = NoEvent]
    /\ dest' = [dest EXCEPT ![p] = Absent]
    /\ code' = [code EXCEPT ![p] = Absent]
    /\ resp' = [resp EXCEPT ![p] = NoResponse]
    /\ sent' = [sent EXCEPT ![p] = << >>]
    /\ fresh' = [fresh EXCEPT ![p] = FALSE]
    /\ UNCHANGED <<presence, conns, writers>>

Next ==
    \E p \in Procs :
        \/ handler(p)
        \/ ConnPut(p)
        \/ DiscDelete(p)
        \/ RegPut(p)
        \/ RegForce(p)
        \/ Guard(p)
        \/ Find(p)
        \/ Post(p)
        \/ Return(p)

Spec == Init /\ [][Next]_vars

(***************************************************************************)
(* The same handler with events of any shape and with calls that fail.     *)
(***************************************************************************)
\* A requestContext that is no dict, so that its .get raises.
BadContext == "~not-a-dict"
\* A "type" that is a JSON number, so that its .strip raises.
NotAString == "~number"
\* A body that json.loads rejects.
NotJson == Msg("~not-json", Absent, Absent, Absent, Absent)
\* A body that is JSON but no object (an array, a number, null).
NotObject == Msg("~array", Absent, Absent, Absent, Absent)
\* The Error.Code of a ClientError that is not the conditional check's.
StoreError == "InternalServerError"

\* An event without requestContext has no routeKey and no connectionId.
MalformedEvents ==
    { Event(BadContext, Absent, TokOwnerA, Msg("register", "robot-9", Absent, Absent, Absent)),
      Event(Absent, Absent, TokOwnerA, Msg("register", "robot-9", Absent, Absent, Absent)),
      Event("$connect", Absent, TokOwnerA, NoMsg),
      Event("$disconnect", Absent, TokNone, NoMsg),
      Event("$default", "C-1", TokOwnerA, NotJson),
      Event("$default", "C-1", TokOwnerA, NotObject),
      Event("$default", "C-1", TokOwnerA, Msg(NotAString, "robot-9", "robot", Absent, "sdp-1")) }

\* The events the failing calls are tried on.
WellFormedEvents ==
    { e \in ConnectEvents : e.token = TokOwnerA }
        \cup DisconnectEvents
        \cup { e \in RegisterEvents :
                 \/ e.token = TokOwnerA /\ e.connectionId = "R-1"
                 \/ e.token \in {TokAdmin, TokUserB} /\ e.connectionId = "C-1" }
        \cup { e \in SignalEvents : e.token = TokOwnerA /\ e.body.type = "offer" }
        \cup { e \in TakeoverEvents : e.token \in {TokAdmin, TokOwnerA} }
        \cup { e \in ClientSignalEvents : e.body.clientConnectionId = "C-1" }

AnyEvents == WellFormedEvents \cup MalformedEvents

\* An exception leaves handler: there is no response.
Escaped(exc) == [pc |-> "raised", resp |-> Response(0, exc), dest |-> Absent]

\* handler, _on_connect, _on_disconnect and _handle_register up to their first
\* call, with what an event of any shape makes them raise on the way.
Entry(e) ==
    IF e.routeKey = BadContext THEN Done(400, "bad request context")
    ELSE IF e.routeKey = "$connect"
    THEN IF ~HasClaims(decode_jwt_noverify(e.token)) THEN Done(401, "unauthorized")
         ELSE IF e.connectionId = Absent THEN Escaped("KeyError")
         ELSE Dispatch(e)
    ELSE IF e.routeKey = "$disconnect"
    THEN IF e.connectionId = Absent THEN Escaped("KeyError") ELSE Dispatch(e)
    ELSE IF ~HasClaims(decode_jwt_noverify(e.token)) THEN Done(401, "unauthorized")
    ELSE IF e.body = NotJson THEN Done(400, "invalid JSON")
    ELSE IF e.body = NotObject THEN Escaped("AttributeError")
    ELSE IF e.body.type = NotAString THEN Escaped("AttributeError")
    ELSE IF MsgType(e) = "register" /\ e.body.robotId # Absent /\ e.connectionId = Absent
    THEN Escaped("KeyError")
    ELSE Dispatch(e)

\* An event of any shape arrives and invocation p runs up to its first call.
handler_any(p) ==
    /\ pc[p] = "idle"
    /\ \E e \in AnyEvents :
        /\ ev' = [ev EXCEPT ![p] = e]
        /\ Move(p, Entry(e))
        /\ fresh' = [fresh EXCEPT ![p] =
                        /\ Entry(e).pc = "reg_put"
                        /\ ~HasItem(presence, "robotId", e.body.robotId)]
    /\ UNCHANGED <<presence, conns, code, sent, writers>>

\* _on_connect: put_item raises a ClientError, which is printed.
ConnPutFails(p) ==
    /\ pc[p] = "conn_put"
    /\ code' = [code EXCEPT ![p] = StoreError]
    /\ Move(p, Done(200, Absent))
    /\ UNCHANGED <<presence, conns, ev, sent, fresh, writers>>

\* The failed delete_item that is reported to the gateway.
DiscDeleteFails_Escalates(p) ==
    /\ pc[p] = "disc_delete"
    /\ code' = [code EXCEPT ![p] = StoreError]
    /\ Move(p, Done(500, "dynamodb error"))
    /\ UNCHANGED <<presence, conns, ev, sent, fresh, writers>>

\* _on_disconnect: delete_item raises a ClientError, which is printed.
DiscDeleteFails(p) ==
    /\ pc[p] = "disc_delete"
    /\ code' = [code EXCEPT ![p] = StoreError]
    /\ Move(p, Done(200, Absent))
    /\ UNCHANGED <<presence, conns, ev, sent, fresh, writers>>

\* _handle_register: the conditional put_item raises a ClientError whose code
\* is not ConditionalCheckFailedException.
RegPutFails(p) ==
    /\ pc[p] = "reg_put"
    /\ code' = [code EXCEPT ![p] = StoreError]
    /\ Move(p, Done(500, "dynamodb error"))
    /\ UNCHANGED <<presence, conns, ev, sent, fresh, writers>>

\* _handle_register: the admin's unconditional put_item raises a ClientError,
\* inside the except block, where nothing catches it.
RegForceFails(p) ==
    /\ pc[p] = "reg_force"
    /\ code' = [code EXCEPT ![p] = StoreError]
    /\ Move(p, Escaped("ClientError"))
    /\ UNCHANGED <<presence, conns, ev, sent, fresh, writers>>

\* _is_owner_or_admin: get_item raises a ClientError, which nothing catches.
GuardFails(p) ==
    /\ pc[p] = "guard"
    /\ code' = [code EXCEPT ![p] = StoreError]
    /\ Move(p, Escaped("ClientError"))
    /\ UNCHANGED <<presence, conns, ev, sent, fresh, writers>>

\* _find_robot_conn: get_item raises a ClientError, which nothing catches.
FindFails(p) ==
    /\ pc[p] = "find"
    /\ code' = [code EXCEPT ![p] = StoreError]
    /\ Move(p, Escaped("ClientError"))
    /\ UNCHANGED <<presence, conns, ev, sent, fresh, writers>>

\* What p gave to a post_to_connection that raised `err`.
FailedPush(p, err) ==
    [ConnectionId |-> dest[p],
     Data |-> IF IsTakeover(ev[p])
              THEN TakeoverMessage(Claims(p), ev[p].body)
              ELSE SignalMessage(Claims(p), ev[p].body),
     Error |-> err]

\* _post_to: post_to_connection raises GoneException, which is passed over.
PostGone(p) ==
    /\ pc[p] = "post"
    /\ sent' = [sent EXCEPT ![p] = Append(@, FailedPush(p, "GoneException"))]
    /\ pc' = [pc EXCEPT ![p] = "ret"]
    /\ resp' = [resp EXCEPT ![p] = Response(200, Absent)]
    /\ UNCHANGED <<presence, conns, ev, dest, code, fresh, writers>>

\* The ClientError that _post_to hands on to its caller.
PostClientError_Escalates(p) ==
    /\ pc[p] = "post"
    /\ sent' = [sent EXCEPT ![p] = Append(@, FailedPush(p, "ClientError"))]
    /\ pc' = [pc EXCEPT ![p] = "ret"]
    /\ resp' = [resp EXCEPT ![p] = Response(500, "forward failed")]
    /\ UNCHANGED <<presence, conns, ev, dest, code, fresh, writers>>

\* _post_to: post_to_connection raises another ClientError, which is printed.
PostClientError(p) ==
    /\ pc[p] = "post"
    /\ sent' = [sent EXCEPT ![p] = Append(@, FailedPush(p, "ClientError"))]
    /\ pc' = [pc EXCEPT ![p] = "ret"]
    /\ resp' = [resp EXCEPT ![p] = Response(200, Absent)]
    /\ UNCHANGED <<presence, conns, ev, dest, code, fresh, writers>>

\* _post_to: post_to_connection raises an exception that is no ClientError;
\* _post_to lets it through, _handle_signal catches it, _handle_takeover
\* does not.
PostRaises(p) ==
    /\ pc[p] = "post"
    /\ sent' = [sent EXCEPT ![p] = Append(@, FailedPush(p, "Exception"))]
    /\ IF IsTakeover(ev[p])
       THEN /\ pc' = [pc EXCEPT ![p] = "raised"]
            /\ resp' = [resp EXCEPT ![p] = Response(0, "Exception")]
       ELSE /\ pc' = [pc EXCEPT ![p] = "ret"]
            /\ resp' = [resp EXCEPT ![p] = Response(500, "forward failed")]
    /\ UNCHANGED <<presence, conns, ev, dest, code, fresh, writers>>

\* The exception goes to the runtime and the invocation ends.
Unwind(p) ==
    /\ pc[p] = "raised"
    /\ pc' = [pc EXCEPT ![p] = "idle"]
    /\ ev' = [ev EXCEPT ![p] = NoEvent]
    /\ dest' = [dest EXCEPT ![p] = Absent]
    /\ code' = [code EXCEPT ![p] = Absent]
    /\ resp' = [resp EXCEPT ![p] = NoResponse]
    /\ sent' = [sent EXCEPT ![p] = << >>]
    /\ fresh' = [fresh EXCEPT ![p] = FALSE]
    /\ UNCHANGED <<presence, conns, writers>>

NextFault ==
    \E p \in Procs :
        \/ handler_any(p)
        \/ ConnPut(p) \/ ConnPutFails(p)
        \/ DiscDelete(p) \/ DiscDeleteFails(p)
        \/ RegPut(p) \/ RegPutFails(p)
        \/ RegForce(p) \/ RegForceFails(p)
        \/ Guard(p) \/ GuardFails(p)
        \/ Find(p) \/ FindFails(p)
        \/ Post(p) \/ PostGone(p) \/ PostClientError(p) \/ PostRaises(p)
        \/ Return(p)
        \/ Unwind(p)

SpecFault == Init /\ [][NextFault]_vars

(***************************************************************************)
(* What the claims speak of                                                *)
(***************************************************************************)
Sub(p) == ev[p].token.sub
Robot(p) == ev[p].body.robotId
Status(p) == resp[p].statusCode
CallerIsAdmin(p) == SeqToSet(ev[p].token.groups) \cap {"ADMINS", "admin"} # {}
RecordsOf(tbl, r) == { i \in tbl : i.robotId = r }
\* The Presence Record a register of p's event is to leave.
RecordFor(p) ==
    [robotId |-> Robot(p), ownerUserId |-> Sub(p),
     connectionId |-> ev[p].connectionId, status |-> "online"]
\* Invocation p takes the step it stands before at `label`.
StepOf(p, label) == pc[p] = label /\ pc'[p] # label
Registering(p) ==
    /\ ev[p].routeKey = "$default"
    /\ StripLower(ev[p].body.type) = "register"
    /\ Robot(p) \in RobotIds

C1_Racing(p, q) ==
    /\ p # q
    /\ pc[p] = "ret" /\ pc[q] = "ret"
    /\ Registering(p) /\ Registering(q)
    /\ Robot(p) = Robot(q)
    /\ fresh[p] /\ fresh[q]
    /\ Sub(p) # Sub(q)
    /\ ~CallerIsAdmin(p) /\ ~CallerIsAdmin(q)
    /\ writers[Robot(p)] \subseteq {Sub(p), Sub(q)}

(***************************************************************************)
(* C1: two callers with different subjects, neither an admin, register     *)
(* the same robot concurrently (both invocations in flight, both           *)
(* responses decided), the robot had no Presence Record when either event  *)
(* came in and nobody else has written its record: exactly one of them     *)
(* has 200, the other 409, and the one Presence Record of the robot is     *)
(* owned by the subject that has 200.                                      *)
(***************************************************************************)
C1_RaceHasOneWinner ==
    \A p, q \in Procs :
        C1_Racing(p, q) =>
            /\ {Status(p), Status(q)} = {200, 409}
            /\ Cardinality(RecordsOf(presence, Robot(p))) = 1
            /\ \A i \in RecordsOf(presence, Robot(p)) :
                 i.ownerUserId = (IF Status(p) = 200 THEN Sub(p) ELSE Sub(q))

C1_Witness ==
    \E p, q \in Procs :
        /\ C1_Racing(p, q)
        /\ Status(p) = 200 /\ Status(q) = 409
        /\ RecordsOf(presence, Robot(p)) = {RecordFor(p)}

C2_AtMostOnePerRobot(tbl) ==
    \A i, j \in tbl : i.robotId = j.robotId => i = j

C2_RegisterWrites(p) ==
    /\ Registering(p)
    /\ pc[p] \in {"reg_put", "reg_force"} /\ pc'[p] = "ret"

C2_Step ==
    /\ C2_AtMostOnePerRobot(presence')
    /\ presence' # presence => \E p \in Procs : C2_RegisterWrites(p)
    /\ \A i \in presence, j \in presence' :
         (i.robotId = j.robotId /\ i.ownerUserId # j.ownerUserId) =>
            \E p \in Procs :
                /\ C2_RegisterWrites(p)
                /\ Robot(p) = i.robotId
                /\ Sub(p) = j.ownerUserId
                /\ CallerIsAdmin(p)

(***************************************************************************)
(* C2: in every step, there is at most one Presence Record per robotId;    *)
(* the table changes only in a step of a register; and a robot's           *)
(* ownerUserId changes from one subject to another only in the write of a  *)
(* register whose caller is that other subject and is in an admin group.   *)
(***************************************************************************)
C2_SingleOwnerChangesOnlyByAdmin == [][C2_Step]_vars

C2_Witness ==
    \E p \in Procs :
        /\ pc[p] = "ret" /\ Registering(p) /\ CallerIsAdmin(p)
        /\ code[p] = "ConditionalCheckFailedException" /\ Status(p) = 200
        /\ "owner-A" \in writers[Robot(p)]
        /\ RecordsOf(presence, Robot(p)) = {RecordFor(p)}
        /\ \E q \in Procs : pc[q] = "ret" /\ Registering(q) /\ Status(q) = 409

C3_Step ==
    \A p \in Procs :
        ( /\ StepOf(p, "reg_put")
          /\ Registering(p)
          /\ ~CallerIsAdmin(p)
          /\ \E i \in RecordsOf(presence, Robot(p)) : i.ownerUserId # Sub(p) )
        => /\ pc'[p] = "ret"
           /\ resp'[p] = Response(409, "robot already registered by another owner")
           /\ presence' = presence

(***************************************************************************)
(* C3: a register of a caller who is in no admin group, applied to a       *)
(* robot whose Presence Record is owned by another subject, is answered    *)
(* 409 and leaves the presence table as it was.                            *)
(***************************************************************************)
C3_NonAdminConflictChangesNothing == [][C3_Step]_vars

C3_Witness ==
    \E p \in Procs :
        /\ pc[p] = "ret" /\ Registering(p) /\ ~CallerIsAdmin(p)
        /\ Status(p) = 409
        /\ \E i \in RecordsOf(presence, Robot(p)) :
             i.ownerUserId = "owner-A" /\ Sub(p) = "user-B"

C4_Step ==
    \A p \in Procs :
        /\ ( /\ StepOf(p, "reg_put")
             /\ Registering(p)
             /\ CallerIsAdmin(p)
             /\ \E i \in RecordsOf(presence, Robot(p)) : i.ownerUserId # Sub(p) )
           => /\ pc'[p] = "reg_force"
              /\ presence' = presence
        /\ StepOf(p, "reg_force")
           => /\ Registering(p) /\ CallerIsAdmin(p)
              /\ pc'[p] = "ret"
              /\ resp'[p] = Response(200, Absent)
              /\ RecordsOf(presence', Robot(p)) = {RecordFor(p)}

(***************************************************************************)
(* C4: a register of a caller in an admin group, applied to a robot whose  *)
(* Presence Record is owned by another subject, goes on to the             *)
(* unconditional write; that write is answered 200 and leaves the robot    *)
(* one Presence Record, owned by the admin, with the admin's connection.   *)
(***************************************************************************)
C4_AdminForceClaims == [][C4_Step]_vars

C4_Witness ==
    \E p \in Procs :
        /\ pc[p] = "ret" /\ Registering(p) /\ Sub(p) = "admin-1"
        /\ code[p] = "ConditionalCheckFailedException" /\ Status(p) = 200
        /\ writers[Robot(p)] = {"owner-A", "admin-1"}
        /\ RecordsOf(presence, Robot(p)) = {RecordFor(p)}

C5_Step ==
    \A p \in Procs :
        ( /\ StepOf(p, "reg_put")
          /\ Registering(p)
          /\ \A i \in RecordsOf(presence, Robot(p)) : i.ownerUserId = Sub(p) )
        => /\ pc'[p] = "ret"
           /\ resp'[p] = Response(200, Absent)
           /\ RecordsOf(presence', Robot(p)) # {}
           /\ \A i \in RecordsOf(presence', Robot(p)) : i.ownerUserId = Sub(p)

(***************************************************************************)
(* C5: a register applied to a robot that has no Presence Record, or       *)
(* whose Presence Record the caller owns already (from whatever            *)
(* connection, admin or not), is answered 200 and leaves the robot's       *)
(* Presence Record owned by the caller.                                    *)
(***************************************************************************)
C5_SelfRegistrationIdempotent == [][C5_Step]_vars

\* A second register of the owner, from another connection than the record's.
C5_Witness ==
    \E p \in Procs :
        /\ pc[p] = "ret" /\ Registering(p) /\ Status(p) = 200
        /\ ~fresh[p] /\ code[p] = Absent
        /\ Sub(p) = "owner-A" /\ ev[p].connectionId = "C-1"
        /\ writers[Robot(p)] = {"owner-A"}
        /\ RecordsOf(presence, Robot(p)) = {RecordFor(p)}

(***************************************************************************)
(* C6 as stated: whenever a register has its 200 and the response is       *)
(* about to go back, the robot has exactly one Presence Record, with the   *)
(* caller as owner, the caller's connection and status online.             *)
(***************************************************************************)
C6_AtResponse ==
    \A p \in Procs :
        (pc[p] = "ret" /\ Registering(p) /\ Status(p) = 200)
            => RecordsOf(presence, Robot(p)) = {RecordFor(p)}

C6_Step ==
    \A p \in Procs :
        /\ ( /\ pc[p] \in {"reg_put", "reg_force"}
             /\ pc'[p] = "ret"
             /\ resp'[p].statusCode = 200 )
           => RecordsOf(presence', Robot(p)) = {RecordFor(p)}
        /\ (pc'[p] = "ret" /\ Registering(p)' /\ resp'[p].statusCode = 200)
           => /\ Cardinality(RecordsOf(presence', Robot(p)')) = 1
              /\ \A i \in RecordsOf(presence', Robot(p)') : i.status = "online"

(***************************************************************************)
(* C6, amended: the write that earns a register its 200 leaves the robot   *)
(* exactly one Presence Record, with the caller as owner, the caller's     *)
(* connection and status online; and when the response goes back the       *)
(* robot still has exactly one Presence Record, with status online (by     *)
(* then possibly rewritten by another register of the same robot).         *)
(***************************************************************************)
C6_RegisterPostconditionAtWrite == [][C6_Step]_vars

\* Two registers of the same robot in flight; the first has its 200 and the
\* record is no longer the one it wrote.
C6_Witness ==
    \E p, q \in Procs :
        /\ p # q
        /\ pc[p] = "ret" /\ Registering(p) /\ Status(p) = 200
        /\ pc[q] = "ret" /\ Registering(q) /\ Status(q) = 200
        /\ Robot(p) = Robot(q)
        /\ RecordsOf(presence, Robot(p)) = {RecordFor(q)}
        /\ RecordFor(q) # RecordFor(p)

ForwardingToRobot(p) ==
    /\ ev[p].routeKey = "$default"
    /\ StripLower(ev[p].body.type) \in {"offer", "answer", "ice-candidate"}
    /\ ev[p].body.target = "robot"
    /\ Robot(p) \in RobotIds

C7_Step ==
    \A p \in Procs :
        ForwardingToRobot(p) =>
            /\ ( /\ StepOf(p, "guard")
                 /\ \E i \in RecordsOf(presence, Robot(p)) : i.ownerUserId = Sub(p) )
               => pc'[p] = "find" /\ sent'[p] = << >>
            /\ StepOf(p, "find")
               => \A i \in RecordsOf(presence, Robot(p)) :
                     /\ pc'[p] = "post"
                     /\ dest'[p] = i.connectionId
                     /\ sent'[p] = << >>
            /\ StepOf(p, "post")
               => /\ pc'[p] = "ret"
                  /\ resp'[p] = Response(200, Absent)
                  /\ sent'[p] =
                       << [ConnectionId |-> dest[p],
                           Data |-> [type |-> ev[p].body.type,
                                     robotId |-> Robot(p),
                                     from |-> Sub(p),
                                     payload |-> ev[p].body.payload]] >>

(***************************************************************************)
(* C7: a signal message (offer, answer, ice-candidate) with target=robot   *)
(* whose caller is the owner of the robot's Presence Record passes the     *)
(* guard; the lookup that follows takes the record's connectionId as the   *)
(* destination; and the push that follows is the invocation's only one,    *)
(* goes to that destination with {type, robotId, from, payload} taken      *)
(* from the inbound message as they came, and is answered 200.             *)
(***************************************************************************)
C7_OwnerSignalReachesRobot == [][C7_Step]_vars

\* The owner's " Answer", sent while the record says connection R-1, has
\* been pushed to R-1, and the record still says so.
C7_Witness ==
    \E p \in Procs :
        /\ pc[p] = "ret" /\ ForwardingToRobot(p) /\ Status(p) = 200
        /\ Sub(p) = "owner-A" /\ ev[p].body.type = " Answer"
        /\ RecordsOf(presence, Robot(p)) =
             { [robotId |-> Robot(p), ownerUserId |-> "owner-A",
                connectionId |-> "R-1", status |-> "online"] }
        /\ Len(sent[p]) = 1
        /\ sent[p][1].ConnectionId = "R-1"
        /\ sent[p][1].Data.payload = "sdp-2"

C8_Step ==
    \A p \in Procs :
        /\ ( /\ StepOf(p, "guard")
             /\ ForwardingToRobot(p)
             /\ ~CallerIsAdmin(p)
             /\ \A i \in RecordsOf(presence, Robot(p)) : i.ownerUserId # Sub(p) )
           => /\ pc'[p] = "ret"
              /\ resp'[p] = Response(403, "forbidden")
              /\ sent'[p] = << >>
              /\ presence' = presence
              /\ conns' = conns
        /\ (StepOf(p, "idle") /\ ForwardingToRobot(p)')
           => /\ sent'[p] = << >>
              /\ presence' = presence
              /\ conns' = conns

(***************************************************************************)
(* C8: a signal message with target=robot whose caller is in no admin      *)
(* group and is not the owner of the robot's Presence Record (the robot    *)
(* may have none) is stopped by the guard: 403, nothing pushed, and both   *)
(* tables as they were, in the step that takes the event in as in the      *)
(* step of the guard.                                                      *)
(***************************************************************************)
C8_StrangerSignalForbidden == [][C8_Step]_vars

\* user-B's offer for a robot that has no record has its 403.
C8_Witness ==
    \E p \in Procs :
        /\ pc[p] = "ret" /\ ForwardingToRobot(p) /\ Status(p) = 403
        /\ Sub(p) = "user-B"
        /\ RecordsOf(presence, Robot(p)) = {}
        /\ sent[p] = << >>

TakingOver(p) ==
    /\ ev[p].routeKey = "$default"
    /\ StripLower(ev[p].body.type) = "takeover"
    /\ Robot(p) \in RobotIds

C9_Step ==
    \A p \in Procs :
        TakingOver(p) =>
            /\ (StepOf(p, "guard") /\ RecordsOf(presence, Robot(p)) # {})
               => IF \/ CallerIsAdmin(p)
                     \/ \E i \in RecordsOf(presence, Robot(p)) : i.ownerUserId = Sub(p)
                  THEN pc'[p] = "find" /\ sent'[p] = << >>
                  ELSE /\ pc'[p] = "ret"
                       /\ resp'[p] = Response(403, "forbidden")
                       /\ sent'[p] = << >>
            /\ StepOf(p, "find")
               => \A i \in RecordsOf(presence, Robot(p)) :
                     /\ pc'[p] = "post"
                     /\ dest'[p] = i.connectionId
                     /\ sent'[p] = << >>
            /\ StepOf(p, "post")
               => /\ pc'[p] = "ret"
                  /\ resp'[p] = Response(200, Absent)
                  /\ sent'[p] =
                       << [ConnectionId |-> dest[p],
                           Data |-> [type |-> "admin-takeover",
                                     robotId |-> Robot(p),
                                     by |-> Sub(p)]] >>

(***************************************************************************)
(* C9: a takeover for a robot that has a Presence Record: a caller who is  *)
(* neither its owner nor in an admin group is stopped by the guard with    *)
(* 403 and nothing pushed; the owner and every admin pass the guard, the   *)
(* lookup takes the record's connectionId, and the one push goes there,    *)
(* is {type: "admin-takeover", robotId, by: caller} without a payload,     *)
(* and is answered 200.                                                    *)
(***************************************************************************)
C9_TakeoverNeedsOwnerOrAdmin == [][C9_Step]_vars

\* The owner's takeover has been pushed to the record's connection while
\* user-B's takeover has its 403.
C9_Witness ==
    \E p, q \in Procs :
        /\ pc[p] = "ret" /\ TakingOver(p) /\ Status(p) = 200
        /\ Sub(p) = "owner-A"
        /\ \E i \in RecordsOf(presence, Robot(p)) :
             /\ i.ownerUserId = "owner-A"
             /\ sent[p] = << [ConnectionId |-> i.connectionId,
                              Data |-> [type |-> "admin-takeover",
                                        robotId |-> Robot(p),
                                        by |-> "owner-A"]] >>
        /\ pc[q] = "ret" /\ TakingOver(q) /\ Status(q) = 403
        /\ Sub(q) = "user-B" /\ sent[q] = << >>

NotifyingOrForwarding(e) ==
    /\ e.routeKey = "$default"
    /\ StripLower(e.body.type) \in {"takeover", "offer", "answer", "ice-candidate"}

C10_Step ==
    \A p \in Procs :
        ( /\ pc'[p] # pc[p]
          /\ NotifyingOrForwarding(ev[p]) \/ NotifyingOrForwarding(ev'[p]) )
        => presence' = presence /\ conns' = conns

(***************************************************************************)
(* C10: no step of a takeover or of a signal message (offer, answer,       *)
(* ice-candidate), from the event coming in to the response going back     *)
(* and whatever the response, changes the presence table or the            *)
(* connection table.                                                       *)
(***************************************************************************)
C10_TakeoverAndSignalsReadOnly == [][C10_Step]_vars

\* An admin's takeover has been pushed and answered 200, and the record is
\* still owner-A's.
C10_Witness ==
    \E p \in Procs :
        /\ pc[p] = "ret" /\ TakingOver(p) /\ Status(p) = 200
        /\ Sub(p) = "admin-1" /\ Len(sent[p]) = 1
        /\ \E i \in RecordsOf(presence, Robot(p)) : i.ownerUserId = "owner-A"

\* The token of e yields claims: three segments, a JSON object, a subject.
Authenticated(e) ==
    /\ e.token.present /\ e.token.segs = 3 /\ e.token.json
    /\ e.token.sub \notin {Absent, ""}
\* A message of an authenticated caller whose type names no operation.
UnknownType(e) ==
    /\ e.routeKey = "$default"
    /\ Authenticated(e)
    /\ StripLower(e.body.type) \notin
         {"register", "offer", "answer", "ice-candidate", "takeover"}

C11_Step ==
    \A p \in Procs :
        (StepOf(p, "idle") /\ UnknownType(ev'[p]))
        => /\ pc'[p] = "ret"
           /\ resp'[p] = Response(400, "unknown type")
           /\ sent'[p] = << >>
           /\ presence' = presence
           /\ conns' = conns

(***************************************************************************)
(* C11: a message of an authenticated caller whose type, trimmed and       *)
(* lower-cased, is none of register, offer, answer, ice-candidate,         *)
(* takeover (the type may be absent) is answered 400 "unknown type" in     *)
(* the step that takes it in: no call is made, nothing is pushed, and      *)
(* both tables stay as they were.                                          *)
(***************************************************************************)
C11_UnknownTypeRejected == [][C11_Step]_vars

\* A "ping" and a message without a type both have their 400 while the
\* robot's record stands.
C11_Witness ==
    \E p, q \in Procs :
        /\ pc[p] = "ret" /\ ev[p].body.type = "ping"
        /\ resp[p] = Response(400, "unknown type") /\ sent[p] = << >>
        /\ pc[q] = "ret" /\ ev[q].routeKey = "$default" /\ ev[q].body.type = Absent
        /\ Authenticated(ev[q])
        /\ resp[q] = Response(400, "unknown type") /\ sent[q] = << >>
        /\ RecordsOf(presence, "robot-9") # {}

\* A signal message of an authenticated caller addressed to a client.
ForwardingToClient(e) ==
    /\ e.routeKey = "$default"
    /\ Authenticated(e)
    /\ StripLower(e.body.type) \in {"offer", "answer", "ice-candidate"}
    /\ e.body.robotId \in RobotIds
    /\ e.body.target = "client"

C14_Step ==
    \A p \in Procs :
        /\ (StepOf(p, "idle") /\ ForwardingToClient(ev'[p]))
           => /\ presence' = presence /\ conns' = conns /\ sent'[p] = << >>
              /\ IF ev'[p].body.clientConnectionId \in {Absent, ""}
                 THEN /\ pc'[p] = "ret"
                      /\ resp'[p] = Response(400,
                            "clientConnectionId required for target=client")
                 ELSE /\ pc'[p] = "post"
                      /\ dest'[p] = ev'[p].body.clientConnectionId
        /\ (StepOf(p, "post") /\ ForwardingToClient(ev[p]))
           => /\ pc'[p] = "ret"
              /\ resp'[p] = Response(200, Absent)
              /\ sent'[p] =
                   << [ConnectionId |-> ev[p].body.clientConnectionId,
                       Data |-> [type |-> ev[p].body.type,
                                 robotId |-> Robot(p),
                                 from |-> Sub(p),
                                 payload |-> ev[p].body.payload]] >>
              /\ presence' = presence /\ conns' = conns

(***************************************************************************)
(* C14: a signal message (offer, answer, ice-candidate) with target=client *)
(* and a robotId, from any authenticated caller: with a non-empty          *)
(* clientConnectionId it goes from the event straight to the push, with    *)
(* no read of the robot's record, and the push is the invocation's only    *)
(* one, goes to clientConnectionId with {type, robotId, from, payload}     *)
(* and is answered 200; without a clientConnectionId it is answered 400    *)
(* in the step that takes it in, with nothing pushed.                      *)
(***************************************************************************)
C14_SignalToClientUnguarded == [][C14_Step]_vars

\* user-B, who neither owns robot-9 nor is an admin, has had an answer
\* pushed to C-1 while owner-A owns the robot, and the same message without
\* a clientConnectionId has its 400.
C14_Witness ==
    \E p, q \in Procs :
        /\ pc[p] = "ret" /\ ForwardingToClient(ev[p]) /\ Status(p) = 200
        /\ Sub(p) = "user-B" /\ ~CallerIsAdmin(p)
        /\ \E i \in RecordsOf(presence, Robot(p)) : i.ownerUserId = "owner-A"
        /\ Len(sent[p]) = 1 /\ sent[p][1].ConnectionId = "C-1"
        /\ sent[p][1].Data.from = "user-B"
        /\ pc[q] = "ret" /\ ForwardingToClient(ev[q]) /\ Status(q) = 400
        /\ ev[q].body.clientConnectionId = Absent /\ sent[q] = << >>

C15_Step ==
    \A p \in Procs :
        ( /\ StepOf(p, "idle")
          /\ ev'[p].routeKey \in {"$connect", "$default"}
          /\ ~Authenticated(ev'[p]) )
        => /\ pc'[p] = "ret"
           /\ resp'[p] = Response(401, "unauthorized")
           /\ sent'[p] = << >>
           /\ presence' = presence
           /\ conns' = conns

(***************************************************************************)
(* C15: a connect or a message whose token yields no claims (no token, a   *)
(* token that is not three segments or whose middle segment is no JSON     *)
(* object, a subject that is absent or empty) is answered 401 in the step  *)
(* that takes it in, whatever the body says: no call is made, so no        *)
(* Connection Record is written, the presence table does not change and    *)
(* nothing is pushed.                                                      *)
(***************************************************************************)
C15_NoClaimsUnauthorized == [][C15_Step]_vars

\* A connect with a two-segment token and a register with an undecodable
\* token both have their 401; the connection of the first has no record
\* and the robot of the second has none.
C15_Witness ==
    \E p, q \in Procs :
        /\ pc[p] = "ret" /\ ev[p].routeKey = "$connect" /\ ev[p].token.segs = 2
        /\ Status(p) = 401
        /\ \A i \in conns : i.connectionId # ev[p].connectionId
        /\ pc[q] = "ret" /\ ev[q].routeKey = "$default" /\ ~ev[q].token.json
        /\ ev[q].token.present /\ ev[q].body.type = "register"
        /\ Status(q) = 401
        /\ RecordsOf(presence, Robot(q)) = {}

\* p's event is a signal for the robot or a takeover.
ToRobot(p) == ForwardingToRobot(p) \/ TakingOver(p)
OwnsRecord(p) == \E i \in RecordsOf(presence, Robot(p)) : i.ownerUserId = Sub(p)

\* C16 as stated: the record the destination is read from is the caller's
\* own, unless the caller is an admin.
C16_OwnerAtLookup ==
    [][ \A p \in Procs :
          (ToRobot(p) /\ StepOf(p, "find") /\ pc'[p] = "post")
          => CallerIsAdmin(p) \/ OwnsRecord(p) ]_vars

C16_Step ==
    \A p \in Procs :
        /\ (ToRobot(p) /\ StepOf(p, "guard") /\ pc'[p] # "ret")
           => /\ pc'[p] = "find"
              /\ CallerIsAdmin(p) \/ OwnsRecord(p)
        /\ (pc'[p] = "find" /\ pc[p] # "find")
           => ToRobot(p) /\ pc[p] = "guard"
        /\ (ToRobot(p) /\ pc'[p] = "post" /\ pc[p] # "post")
           => /\ pc[p] = "find"
              /\ \E i \in RecordsOf(presence, Robot(p)) :
                    dest'[p] = i.connectionId
        /\ (ToRobot(p) /\ sent'[p] # sent[p] /\ sent'[p] # << >>)
           => /\ pc[p] = "post"
              /\ Len(sent'[p]) = 1
              /\ sent'[p][1].ConnectionId = dest[p]

(***************************************************************************)
(* C16: a signal for the robot or a takeover notification of caller U for  *)
(* robot R is pushed only at the end of guard, lookup, push, in that       *)
(* order: the guard lets U on only if, at the guard's read, U is in an     *)
(* admin group or the owner of R's record; the lookup, a second read,      *)
(* takes the connectionId R's record has by then; the push goes there.     *)
(***************************************************************************)
C16_GuardThenLookupThenPush == [][C16_Step]_vars

\* owner-A's message has been pushed to the connection of a record that is
\* admin-1's.
C16_Witness ==
    \E p \in Procs :
        /\ pc[p] = "ret" /\ ToRobot(p) /\ Status(p) = 200
        /\ Sub(p) = "owner-A" /\ Len(sent[p]) = 1
        /\ \E i \in RecordsOf(presence, Robot(p)) :
              /\ i.ownerUserId = "admin-1"
              /\ i.connectionId = sent[p][1].ConnectionId

\* What a message does, told from the event, the place the invocation is at,
\* the destination it holds and the presence table, and from nothing else:
\* where it goes, its response, its destination, whether it writes its
\* Presence Record and whether it pushes.
C20_Result(to, status, body, d, writes, pushes) ==
    [pc |-> to, resp |-> Response(status, body), dest |-> d,
     writes |-> writes, pushes |-> pushes]
C20_Ends(status, body) == C20_Result("ret", status, body, Absent, FALSE, FALSE)
C20_Calls(label, d) == C20_Result(label, 0, Absent, d, FALSE, FALSE)

C20_Arrival(e) ==
    LET type == StripLower(e.body.type)
        m == e.body
    IN IF ~Authenticated(e) THEN C20_Ends(401, "unauthorized")
       ELSE IF type \notin {"register", "offer", "answer", "ice-candidate", "takeover"}
       THEN C20_Ends(400, "unknown type")
       ELSE IF m.robotId = Absent THEN C20_Ends(400, "robotId required")
       ELSE IF type = "register" THEN C20_Calls("reg_put", Absent)
       ELSE IF type = "takeover" \/ m.target = "robot" THEN C20_Calls("guard", Absent)
       ELSE IF m.target # "client" THEN C20_Ends(400, "invalid target")
       ELSE IF m.clientConnectionId \in {Absent, ""}
       THEN C20_Ends(400, "clientConnectionId required for target=client")
       ELSE C20_Calls("post", m.clientConnectionId)

C20_Call(e, at, d, tbl) ==
    LET recs == RecordsOf(tbl, e.body.robotId)
        admin == SeqToSet(e.token.groups) \cap {"ADMINS", "admin"} # {}
        owner == \E i \in recs : i.ownerUserId = e.token.sub
    IN CASE at = "reg_put" ->
              IF recs = {} \/ owner
              THEN C20_Result("ret", 200, Absent, Absent, TRUE, FALSE)
              ELSE IF admin THEN C20_Calls("reg_force", Absent)
              ELSE C20_Ends(409, "robot already registered by another owner")
         [] at = "reg_force" -> C20_Result("ret", 200, Absent, Absent, TRUE, FALSE)
         [] at = "guard" ->
              IF admin \/ owner THEN C20_Calls("find", Absent)
              ELSE C20_Ends(403, "forbidden")
         [] at = "find" ->
              IF recs = {}
              THEN C20_Ends(404, IF StripLower(e.body.type) = "takeover"
                                 THEN "robot offline" ELSE "target offline")
              ELSE C20_Calls("post", (CHOOSE i \in recs : TRUE).connectionId)
         [] at = "post" -> C20_Result("ret", 200, Absent, d, FALSE, TRUE)

C20_Step ==
    \A p \in Procs :
        ( /\ pc'[p] # pc[p]
          /\ pc[p] \notin {"ret", "conn_put", "disc_delete"}
          /\ ev'[p].routeKey = "$default" )
        => LET r == IF pc[p] = "idle" THEN C20_Arrival(ev'[p])
                    ELSE C20_Call(ev[p], pc[p], dest[p], presence)
           IN /\ pc'[p] = r.pc
              /\ resp'[p] = r.resp
              /\ dest'[p] = r.dest
              /\ Len(sent'[p]) = Len(sent[p]) + (IF r.pushes THEN 1 ELSE 0)
              /\ r.pushes =>
                   sent'[p][Len(sent'[p])] =
                     [ConnectionId |-> dest[p],
                      Data |-> IF StripLower(ev[p].body.type) = "takeover"
                               THEN [type |-> "admin-takeover", robotId |-> Robot(p),
                                     by |-> Sub(p)]
                               ELSE [type |-> ev[p].body.type, robotId |-> Robot(p),
                                     from |-> Sub(p),
                                     payload |-> ev[p].body.payload]]
              /\ presence' = IF r.writes
                             THEN { i \in presence : i.robotId # Robot(p) }
                                    \cup {RecordFor(p)}
                             ELSE presence
              /\ conns' = conns

(***************************************************************************)
(* C20: every step of a message invocation, from the event coming in to    *)
(* its last call, is a function of the event, of what the invocation       *)
(* holds and of the presence table alone: where it goes, its response,     *)
(* its destination, its push and its write to the presence table are the   *)
(* same in all states that agree on these, whatever the connection table   *)
(* holds, and the connection table is left as it was.                      *)
(***************************************************************************)
C20_MessagesIgnoreConnections == [][C20_Step]_vars

\* A register on a connection that has no Connection Record and a forward
\* on a connection that has one are both answered 200.
C20_Witness ==
    \E p, q \in Procs :
        /\ pc[p] = "ret" /\ Registering(p) /\ Status(p) = 200
        /\ \A i \in conns : i.connectionId # ev[p].connectionId
        /\ pc[q] = "ret" /\ ForwardingToRobot(q) /\ Status(q) = 200
        /\ Len(sent[q]) = 1
        /\ \E i \in conns : i.connectionId = ev[q].connectionId

ConnRecords(tbl, c) == { i \in tbl : i.connectionId = c }
\* conns' holds one record for the connection of p's connect: p's own.
C12_Connected(p) ==
    /\ Cardinality(ConnRecords(conns', ev[p].connectionId)) = 1
    /\ \A i \in ConnRecords(conns', ev[p].connectionId) :
          i.userId = Sub(p) /\ i.kind = "client"
\* conns' holds no record for the connection of p's disconnect, and is
\* conns when there was none.
C12_Disconnected(p) ==
    /\ ConnRecords(conns', ev[p].connectionId) = {}
    /\ ConnRecords(conns, ev[p].connectionId) = {} => conns' = conns

\* C12 as stated: the record is always there after the connect and always
\* gone after the disconnect.
C12_Always ==
    [][ \A p \in Procs :
          /\ StepOf(p, "conn_put")
             => resp'[p] = Response(200, Absent) /\ C12_Connected(p)
          /\ StepOf(p, "disc_delete")
             => resp'[p] = Response(200, Absent) /\ C12_Disconnected(p) ]_vars

C12_Step ==
    \A p \in Procs :
        /\ StepOf(p, "conn_put")
           => /\ pc'[p] = "ret" /\ resp'[p] = Response(200, Absent)
              /\ IF code'[p] = Absent THEN C12_Connected(p) ELSE conns' = conns
        /\ StepOf(p, "disc_delete")
           => /\ pc'[p] = "ret" /\ resp'[p] = Response(200, Absent)
              /\ IF code'[p] = Absent THEN C12_Disconnected(p) ELSE conns' = conns

(***************************************************************************)
(* C12: a connect with valid claims on connection c is answered 200 and,   *)
(* when its put_item does not fail, leaves exactly one Connection Record   *)
(* for c, with userId the token's subject and kind client; a disconnect    *)
(* for c is answered 200 and, when its delete_item does not fail, leaves   *)
(* no Connection Record for c, and the table as it was when c had none;    *)
(* when the store call fails the table is as it was and the answer is      *)
(* still 200.                                                              *)
(***************************************************************************)
C12_ConnectionLifecycle == [][C12_Step]_vars

\* One connect has its 200 and its record; another has its 200 after a
\* failed put_item, and its connection has no record.
C12_Witness ==
    \E p, q \in Procs :
        /\ pc[p] = "ret" /\ ev[p].routeKey = "$connect" /\ Status(p) = 200
        /\ code[p] = Absent
        /\ \E i \in conns : i.connectionId = ev[p].connectionId /\ i.userId = Sub(p)
        /\ pc[q] = "ret" /\ ev[q].routeKey = "$connect" /\ Status(q) = 200
        /\ code[q] = StoreError
        /\ ConnRecords(conns, ev[q].connectionId) = {}

C13_Step ==
    \A p \in Procs :
        /\ ( /\ StepOf(p, "idle")
             /\ ev'[p].routeKey = "$disconnect"
             /\ ev'[p].connectionId # Absent )
           => pc'[p] = "disc_delete"
        /\ StepOf(p, "disc_delete")
           => pc'[p] = "ret" /\ resp'[p] = Response(200, Absent)

(***************************************************************************)
(* C13: a disconnect for a connection goes to its delete_item, and         *)
(* whatever the delete_item does (removes the record, finds none, fails    *)
(* with a store error) the disconnect is answered 200.                     *)
(***************************************************************************)
C13_DisconnectAlwaysSucceeds == [][C13_Step]_vars

\* One disconnect has its 200 after a delete_item that failed, the record of
\* its connection still there; another has its 200 for a connection that
\* has no record.
C13_Witness ==
    \E p, q \in Procs :
        /\ pc[p] = "ret" /\ ev[p].routeKey = "$disconnect" /\ Status(p) = 200
        /\ code[p] = StoreError
        /\ ConnRecords(conns, ev[p].connectionId) # {}
        /\ pc[q] = "ret" /\ ev[q].routeKey = "$disconnect" /\ Status(q) = 200
        /\ code[q] = Absent
        /\ ConnRecords(conns, ev[q].connectionId) = {}

(***************************************************************************)
(* C17: no invocation ends with an exception that left handler: every      *)
(* event, of whatever shape and whatever the store does, gets a response.  *)
(***************************************************************************)
C17_NoEscape == \A p \in Procs : pc[p] # "raised"

(***************************************************************************)
(* C18: a register whose store call failed with an error that is not the   *)
(* conditional check's, be it the conditional put_item or the admin's      *)
(* unconditional one, has the response 500.                                *)
(***************************************************************************)
C18_StoreFailureIs500 ==
    \A p \in Procs :
        (Registering(p) /\ code[p] = StoreError)
        => pc[p] = "ret" /\ Status(p) = 500

\* p's event is a signal message that is forwarded.
Forwarding(p) == ForwardingToRobot(p) \/ ForwardingToClient(ev[p])
\* The error the push p has just made ended with, if any.
C19_PushError(p) ==
    LET last == sent'[p][Len(sent'[p])]
    IN IF "Error" \in DOMAIN last THEN last.Error ELSE Absent

C19_Step ==
    \A p \in Procs :
        (Forwarding(p) /\ StepOf(p, "post"))
        => /\ pc'[p] = "ret"
           /\ Len(sent'[p]) = 1
           /\ resp'[p] =
                IF C19_PushError(p) \in {Absent, "GoneException", "ClientError"}
                THEN Response(200, Absent)
                ELSE Response(500, "forward failed")

C21_Step ==
    /\ \A r \in RobotIds :
          /\ RecordsOf(presence, r) # {}
             => /\ RecordsOf(presence', r) # {}
                /\ \A i \in RecordsOf(presence', r) : i.status = "online"
          /\ RecordsOf(presence', r) # RecordsOf(presence, r)
             => \E p \in Procs :
                   /\ Registering(p) /\ Robot(p) = r
                   /\ StepOf(p, "reg_put") \/ StepOf(p, "reg_force")
                   /\ pc'[p] = "ret" /\ resp'[p] = Response(200, Absent)
    /\ \A p \in Procs :
          /\ StepOf(p, "disc_delete") => presence' = presence
          /\ (ForwardingToRobot(p) /\ StepOf(p, "find") /\ code'[p] = Absent)
             => \A i \in RecordsOf(presence, Robot(p)) :
                   pc'[p] = "post" /\ dest'[p] = i.connectionId
          /\ ( /\ ForwardingToRobot(p) /\ StepOf(p, "post")
               /\ C19_PushError(p) \in {Absent, "GoneException"} )
             => /\ sent'[p][Len(sent'[p])].ConnectionId = dest[p]
                /\ pc'[p] = "ret" /\ resp'[p] = Response(200, Absent)

=============================================================================
